---- MODULE Spec2Model ----
(***************************************************************************)
(* The stability signal processor of airsoft-pro-sight: the DeviceMotion   *)
(* listener of CameraScreen (src/app/index.tsx, "variant A") and that of   *)
(* HomeScreen (src/unnamed/part_000, "variant B").                         *)
(*                                                                         *)
(* Numbers.  Axis values are integers (a subset of the doubles the sensor  *)
(* reports).  A quotient the code computes (avgTremor, score) is kept as   *)
(* an exact fraction [num, den]; toFixed(1) is rounding to an integer      *)
(* count of tenths.  Floating-point rounding error, NaN and Infinity are   *)
(* outside the model.                                                      *)
(*                                                                         *)
(* Optional values.  A field that may be null/undefined is <<>> when      *)
(* absent and <<v>> when present.                                          *)
(***************************************************************************)
EXTENDS Integers, Sequences, FiniteSets, TLC

VARIABLES
    variant,            \* "A": CameraScreen is mounted, "B": HomeScreen is mounted
    lastAcceleration,   \* variant A: let lastAcceleration = {x, y, z}
    lastRotation,       \* variant B: let lastRotation = {alpha, beta, gamma}
    stabilityHistory,   \* let stabilityHistory: number[]
    updateCount,        \* let updateCount
    isInitialized,      \* variant A: let isInitialized
    stabilityScore,     \* useState(1): the value last given to setStabilityScore
    webViewRef,         \* webViewRef.current: absent, or the WebView
    windowFns,          \* the entry points the page in the WebView exposes
    injected,           \* what the latest listener call made the page run
    nUpdateStability,   \* calls of window.updateStability so far
    nUpdateOrientation, \* calls of window.updateOrientation so far
    sampleLog,          \* history variable: every payload given to the listener
    latestAxes,         \* history variable: the axis values of the latest payload
                        \* that carried the tracked vector, absent axes as 0
    tremorLog,          \* history variable: the tremor of each such payload
                        \* against the one before it
    sameRun,            \* history variable: how many such payloads in a row
                        \* had the axis values of the one before
    changes,            \* history variable: environment changes so far
    subscription,       \* const subscription = DeviceMotion.addListener(...)
    lifetime,           \* history variable: effect runs (subscriptions) so far
    cleanups,           \* history variable: cleanup calls in this lifetime
    leftover,           \* history variable: the lifetime before ended with a
                        \* non-zero reference and a non-empty history
    airsoftProfiles,    \* AsyncStorage item 'airsoftProfiles'
    firstStored,        \* history variable: the item as the screen found it
    handlers,           \* the calls of handleWebViewMessage, each with its position
    receivedProfiles,   \* the argument of the latest window.receiveProfiles call
    zoom,               \* useState(0): the value last given to setZoom, in thousandths
    airsoftState,       \* AsyncStorage item 'airsoftState'
    savedState,         \* history variable: the state of the latest saveState
                        \* that completed (or that an earlier run left)
    applied,            \* the arguments of the window.applyState calls so far
    errors,             \* errors a catch block logged, and errors that left a
                        \* handler uncaught
    onLoad              \* the onLoad hook of the WebView: where it stands, and
                        \* the state it read

vars == <<variant, lastAcceleration, lastRotation, stabilityHistory, updateCount,
          isInitialized, stabilityScore, webViewRef, windowFns, injected,
          nUpdateStability, nUpdateOrientation, sampleLog, latestAxes, tremorLog,
          sameRun, changes, subscription, lifetime, cleanups,
          leftover, airsoftProfiles, firstStored, handlers, receivedProfiles,
          zoom, airsoftState, savedState, applied, errors, onLoad>>

lifeVars == <<subscription, lifetime, cleanups, leftover>>

msgVars == <<airsoftProfiles, firstStored, handlers, receivedProfiles>>

shellVars == <<zoom, airsoftState, savedState, applied, errors, onLoad>>

----------------------------------------------------------------------------
(* Bounds of the exploration *)

\* samples a stream may carry beyond the W + 1 that fill the window
MaxExtra == 2

\* environment changes in one run: a payload that differs from the one
\* before it, the WebView attaching or detaching
MaxChanges == 3

\* listener calls explored in one subscription lifetime of SpecLife
MaxLifeSamples == 3

\* subscription lifetimes (mounts of the screen) explored in SpecLife
MaxLifetimes == 2

\* calls of the effect cleanup explored in one lifetime
MaxCleanups == 2

----------------------------------------------------------------------------
(* Optional values and numbers *)

None == <<>>

Some(v) == <<v>>

\* JavaScript truthiness of an optional object
Present(o) == o # None

\* mutant of OrZero: (v || 1)
OrZero_One(o) == IF o = None \/ o = Some(0) THEN 1 ELSE o[1]

\* (v || 0) for an optional number: undefined, null and 0 all give 0
OrZero(o) == IF o = None THEN 0 ELSE o[1]

Abs(n) == IF n < 0 THEN -n ELSE n

Min(a, b) == IF a <= b THEN a ELSE b

RECURSIVE Sum(_)
\* reduce((a, b) => a + b, 0)
Sum(s) == IF s = <<>> THEN 0 ELSE s[1] + Sum(Tail(s))

RECURSIVE GCD(_, _)
GCD(a, b) == IF b = 0 THEN a ELSE GCD(b, a % b)

\* the number n / d (d > 0), in lowest terms
Frac(n, d) ==
    LET g == GCD(Abs(n), d)
    IN  [num |-> n \div g, den |-> d \div g]

\* the product of two fractions, reduced before multiplying
Times(p, q) ==
    LET a == Frac(p.num, q.den)
        b == Frac(q.num, p.den)
    IN  Frac(a.num * b.num, a.den * b.den)

\* q.toFixed(1) for a fraction q = [num, den] with den > 0, as a count of
\* tenths: the nearest tenth, a tie going away from zero
ToFixed1(q) ==
    LET n == Abs(q.num)
        t == (20 * n + q.den) \div (2 * q.den)
    IN  IF q.num < 0 THEN -t ELSE t

\* thousandths: rotation angles are carried as integer counts of 1/Milli
Milli == 10 * 100

----------------------------------------------------------------------------
(* Motion payloads: what DeviceMotion hands the listener *)

Vec(x, y, z) == [x |-> x, y |-> y, z |-> z]

Rot(a, b, g) == [alpha |-> a, beta |-> b, gamma |-> g]

Motion(acc, grav, rot) ==
    [acceleration |-> acc, accelerationIncludingGravity |-> grav, rotation |-> rot]

\* Payloads CameraScreen's listener is given.  Acceleration axes are
\* integers; rotation angles are in thousandths (1571 is pi/2 rad within
\* half a thousandth, 400000 is a platform reporting 400 degrees).
MotionSamplesA ==
    { Motion(Some(Vec(Some(1), Some(0), Some(0))),
             Some(Vec(Some(1), Some(10), Some(0))),
             Some(Rot(Some(0), Some(1571), Some(-250)))),
      Motion(Some(Vec(Some(5), Some(0), Some(0))),
             Some(Vec(Some(5), Some(10), Some(0))),
             Some(Rot(Some(0), Some(400000), Some(100)))),
      Motion(None, Some(Vec(Some(-3), Some(2), None)), None),
      Motion(None, None, Some(Rot(None, None, Some(100)))) }

\* Payloads HomeScreen's listener is given (angles in thousandths).
MotionSamplesB ==
    { Motion(None, None, Some(Rot(Some(0), Some(0), Some(0)))),
      Motion(None, None, Some(Rot(Some(10), Some(0), Some(0)))),
      Motion(None, None, Some(Rot(Some(10), Some(-30), None))),
      Motion(None, None, Some(Rot(Some(400), Some(200), Some(-100)))),
      Motion(None, None, Some(Rot(None, None, None))),
      Motion(Some(Vec(Some(1), Some(0), Some(0))), None, None) }

----------------------------------------------------------------------------
(* The computation of variant A, src/app/index.tsx 41-132 *)

\* window size, gain and cap of variant A
WindowA == 15

GainA == 25

ScoreCapA == 100

\* window size and gain of variant B, src/unnamed/part_000 52 and 60
WindowB == 5

GainB == 500

\* the window of the mounted variant
Window == IF variant = "A" THEN WindowA ELSE WindowB

\* mutant of SelectAcceleration: gravity-including acceleration is preferred
SelectAcceleration_GravityFirst(data) ==
    IF Present(data.accelerationIncludingGravity) THEN data.accelerationIncludingGravity
    ELSE data.acceleration

\* data.acceleration || data.accelerationIncludingGravity
SelectAcceleration(data) ==
    IF Present(data.acceleration) THEN data.acceleration
    ELSE data.accelerationIncludingGravity

\* mutant of ReadingA: x and y are stored swapped
ReadingA_Swapped(acceleration) ==
    [x |-> OrZero(acceleration.y), y |-> OrZero(acceleration.x), z |-> OrZero(acceleration.z)]

\* { x: x || 0, y: y || 0, z: z || 0 }
ReadingA(acceleration) ==
    [x |-> OrZero(acceleration.x), y |-> OrZero(acceleration.y), z |-> OrZero(acceleration.z)]

\* mutant of TremorA: the Math.abs calls are left out
TremorA_Signed(acceleration, last) ==
    (OrZero(acceleration.x) - last.x)
  + (OrZero(acceleration.y) - last.y)
  + (OrZero(acceleration.z) - last.z)

\* deltaX + deltaY + deltaZ
TremorA(acceleration, last) ==
    Abs(OrZero(acceleration.x) - last.x)
  + Abs(OrZero(acceleration.y) - last.y)
  + Abs(OrZero(acceleration.z) - last.z)

\* mutant of PushHistory: the oldest entry is shifted out one entry late
PushHistory_LateShift(history, tremor, W) ==
    LET pushed == Append(history, tremor)
    IN  IF Len(pushed) > W + 1 THEN Tail(pushed) ELSE pushed

\* mutant of PushHistory: the shift is left out
PushHistory_NoShift(history, tremor, W) == Append(history, tremor)

\* mutant of PushHistory: pop() in place of shift(), the newest entry goes
PushHistory_Pop(history, tremor, W) ==
    LET pushed == Append(history, tremor)
    IN  IF Len(pushed) > W THEN SubSeq(pushed, 1, W) ELSE pushed

\* stabilityHistory.push(tremor); if (length > W) shift()
PushHistory(history, tremor, W) ==
    LET pushed == Append(history, tremor)
    IN  IF Len(pushed) > W THEN Tail(pushed) ELSE pushed

\* mutant of AvgTremor: the sum is divided by the window size
AvgTremor_OverWindow(history) == Frac(Sum(history), Window)

\* reduce(...) / stabilityHistory.length, for a non-empty history
AvgTremor(history) == Frac(Sum(history), Len(history))

\* mutant of ScoreA: the Math.min is left out
ScoreA_NoClamp(avgTremor) == Frac(GainA * avgTremor.num, avgTremor.den)

\* Math.min(avgTremor * 25, 100)
ScoreA(avgTremor) ==
    IF GainA * avgTremor.num <= ScoreCapA * avgTremor.den
    THEN Frac(GainA * avgTremor.num, avgTremor.den)
    ELSE Frac(ScoreCapA, 1)

\* Math.PI, as the fraction PiNum / PiDen
PiNum == 355

PiDen == 113

HalfTurnDeg == 180

FullTurnDeg == 360

\* angle ? (angle * 180 / Math.PI) : 0, for an optional angle in thousandths
ToDegrees(angle) ==
    IF OrZero(angle) = 0 THEN Frac(0, 1)
    ELSE Times(Frac(OrZero(angle), Milli), Frac(HalfTurnDeg * PiDen, PiNum))

\* Math.abs(q) > 360
Exceeds360(q) == Abs(q.num) > FullTurnDeg * q.den

\* mutant of Orientation: each angle falls back on its own magnitude only
Orientation_PerAngle(data) ==
    LET rotation == data.rotation
        pitch == IF Present(rotation) THEN ToDegrees(rotation[1].beta) ELSE Frac(0, 1)
        roll  == IF Present(rotation) THEN ToDegrees(rotation[1].gamma) ELSE Frac(0, 1)
        rawPitch == IF Present(rotation) THEN Frac(OrZero(rotation[1].beta), Milli)
                    ELSE Frac(0, 1)
        rawRoll  == IF Present(rotation) THEN Frac(OrZero(rotation[1].gamma), Milli)
                    ELSE Frac(0, 1)
    IN  [pitch |-> ToFixed1(IF Exceeds360(pitch) THEN rawPitch ELSE pitch),
         roll  |-> ToFixed1(IF Exceeds360(roll) THEN rawRoll ELSE roll)]

\* lines 106-119: pitch and roll, each as toFixed(1) gives it
Orientation(data) ==
    LET rotation == data.rotation
        pitch == IF Present(rotation) THEN ToDegrees(rotation[1].beta) ELSE Frac(0, 1)
        roll  == IF Present(rotation) THEN ToDegrees(rotation[1].gamma) ELSE Frac(0, 1)
        rawPitch == IF Present(rotation) THEN Frac(OrZero(rotation[1].beta), Milli)
                    ELSE Frac(0, 1)
        rawRoll  == IF Present(rotation) THEN Frac(OrZero(rotation[1].gamma), Milli)
                    ELSE Frac(0, 1)
    IN  IF Exceeds360(pitch) \/ Exceeds360(roll)
        THEN [pitch |-> ToFixed1(rawPitch), roll |-> ToFixed1(rawRoll)]
        ELSE [pitch |-> ToFixed1(pitch), roll |-> ToFixed1(roll)]

\* mutant of ScriptA: the updateOrientation call is left out of the script
ScriptA_NoOrientation(score, data, fns) ==
    [updateStability   |-> IF "updateStability" \in fns
                           THEN Some(ToFixed1(score)) ELSE None,
     updateOrientation |-> None]

\* mutant of ScriptA: both calls stand under the check of updateStability
ScriptA_OneCheck(score, data, fns) ==
    [updateStability   |-> IF "updateStability" \in fns
                           THEN Some(ToFixed1(score)) ELSE None,
     updateOrientation |-> IF "updateStability" \in fns
                           THEN Some(Orientation(data)) ELSE None]

\* the script of lines 121-129, run by a page exposing the entry points fns
ScriptA(score, data, fns) ==
    [updateStability   |-> IF "updateStability" \in fns
                           THEN Some(ToFixed1(score)) ELSE None,
     updateOrientation |-> IF "updateOrientation" \in fns
                           THEN Some(Orientation(data)) ELSE None]

----------------------------------------------------------------------------
(* The computation of variant B, src/unnamed/part_000 30-75 *)

\* mutant of ReadingB: gamma is not taken into the reference
ReadingB_NoGamma(rotation) ==
    [alpha |-> OrZero(rotation.alpha), beta |-> OrZero(rotation.beta), gamma |-> 0]

\* { alpha: alpha || 0, beta: beta || 0, gamma: gamma || 0 }
ReadingB(rotation) ==
    [alpha |-> OrZero(rotation.alpha), beta |-> OrZero(rotation.beta),
     gamma |-> OrZero(rotation.gamma)]

\* deltaAlpha + deltaBeta + deltaGamma (in thousandths)
TremorB(rotation, last) ==
    Abs(OrZero(rotation.alpha) - last.alpha)
  + Abs(OrZero(rotation.beta) - last.beta)
  + Abs(OrZero(rotation.gamma) - last.gamma)

\* mutant of ScoreB: the score is capped at 100 as in CameraScreen
ScoreB_Clamped(avgTremor) ==
    IF GainB * avgTremor.num > ScoreCapA * Milli * avgTremor.den THEN Frac(ScoreCapA, 1)
    ELSE Frac(GainB * avgTremor.num, Milli * avgTremor.den)

\* avgTremor * 500, avgTremor being in thousandths
ScoreB(avgTremor) == Frac(GainB * avgTremor.num, Milli * avgTremor.den)

\* the script of lines 67-72
ScriptB(score, fns) ==
    [updateStability   |-> IF "updateStability" \in fns
                           THEN Some(ToFixed1(score)) ELSE None,
     updateOrientation |-> None]

----------------------------------------------------------------------------
(* State and steps *)

EntryPoints == {"updateStability", "updateOrientation"}

\* the state after the first render and the run of useEffect
Mounted(v) ==
    /\ variant = v
    /\ lastAcceleration = [x |-> 0, y |-> 0, z |-> 0]
    /\ lastRotation = [alpha |-> 0, beta |-> 0, gamma |-> 0]
    /\ stabilityHistory = <<>>
    /\ updateCount = 0
    /\ isInitialized = FALSE
    /\ stabilityScore = Frac(1, 1)
    /\ webViewRef = None
    /\ injected = None
    /\ nUpdateStability = 0
    /\ nUpdateOrientation = 0
    /\ sampleLog = <<>>
    /\ latestAxes = None
    /\ tremorLog = <<>>
    /\ sameRun = 0
    /\ changes = 0
    /\ subscription = "active"
    /\ lifetime = 1
    /\ cleanups = 0
    /\ leftover = FALSE
    /\ zoom = 0
    /\ applied = <<>>
    /\ errors = [logged |-> 0, thrown |-> 0]
    /\ onLoad = [pc |-> "idle", state |-> None]
    /\ handlers = <<>>
    /\ receivedProfiles = None

\* nothing has been stored under 'airsoftState' yet
NoSavedState == airsoftState = None /\ savedState = None

\* nothing has been stored under 'airsoftProfiles' or 'airsoftState' yet
FreshInstall == airsoftProfiles = None /\ firstStored = None /\ NoSavedState

Init ==
    /\ \E v \in {"A", "B"} : Mounted(v)
    /\ windowFns = EntryPoints
    /\ FreshInstall

\* a payload is an environment change unless it repeats the one before it
IsChange(data) == sampleLog = <<>> \/ sampleLog[Len(sampleLog)] # data

\* the stream is explored to MaxExtra samples beyond those that fill the
\* window, with at most MaxChanges environment changes
MayReceive(data) ==
    /\ updateCount < Window + 1 + MaxExtra
    /\ IsChange(data) => changes < MaxChanges

\* the axis vector the mounted variant tracks is in the payload
HasVector(data) ==
    IF variant = "A"
    THEN data.acceleration # None \/ data.accelerationIncludingGravity # None
    ELSE data.rotation # None

ValueOr0(o) == IF o = None THEN 0 ELSE o[1]

\* the tracked axis values of a payload that has the vector, absent axes as 0
AxesOf(data) ==
    IF variant = "A"
    THEN LET v == IF data.acceleration # None THEN data.acceleration[1]
                  ELSE data.accelerationIncludingGravity[1]
         IN  <<ValueOr0(v.x), ValueOr0(v.y), ValueOr0(v.z)>>
    ELSE LET r == data.rotation[1]
         IN  <<ValueOr0(r.alpha), ValueOr0(r.beta), ValueOr0(r.gamma)>>

\* sum over the three axes of |a - b|
Dist(a, b) == Abs(a[1] - b[1]) + Abs(a[2] - b[2]) + Abs(a[3] - b[3])

\* The stream as the properties read it: the tremor of a payload with the
\* vector is its distance from the payload with the vector before it;
\* variant A has none for the first such payload, variant B takes its
\* first against <<0, 0, 0>>.
Received(data) ==
    /\ sampleLog' = Append(sampleLog, data)
    /\ changes' = IF IsChange(data) THEN changes + 1 ELSE changes
    /\ IF HasVector(data)
       THEN /\ latestAxes' = Some(AxesOf(data))
            /\ tremorLog' =
                  IF latestAxes # None
                  THEN Append(tremorLog, Dist(AxesOf(data), latestAxes[1]))
                  ELSE IF variant = "A" THEN tremorLog
                  ELSE Append(tremorLog, Dist(AxesOf(data), <<0, 0, 0>>))
            /\ sameRun' = IF latestAxes = Some(AxesOf(data)) THEN sameRun + 1 ELSE 0
       ELSE UNCHANGED <<latestAxes, tremorLog, sameRun>>

\* injectJavaScript(script): the page runs the calls its entry points allow
Inject(script) ==
    /\ injected' = Some(script)
    /\ nUpdateStability' =
          IF Present(script.updateStability) THEN nUpdateStability + 1
          ELSE nUpdateStability
    /\ nUpdateOrientation' =
          IF Present(script.updateOrientation) THEN nUpdateOrientation + 1
          ELSE nUpdateOrientation

NoInject ==
    /\ injected' = None
    /\ UNCHANGED <<nUpdateStability, nUpdateOrientation>>

\* mutant of FirstReading: the guard never fires
FirstReading_Never == FALSE

\* if (!isInitialized)
FirstReading == ~isInitialized

\* DeviceMotion calls a listener only while its subscription is not removed
Subscribed == subscription = "active"

\* src/app/index.tsx 41-132: the DeviceMotion listener of CameraScreen
OnSampleA(data) ==
    /\ variant = "A"
    /\ Subscribed
    /\ MayReceive(data)
    /\ Received(data)
    /\ updateCount' = updateCount + 1
    /\ UNCHANGED <<variant, lastRotation, webViewRef, windowFns, lifeVars, msgVars, shellVars>>
    /\ LET acceleration == SelectAcceleration(data)
       IN  IF ~Present(acceleration)
           THEN /\ UNCHANGED <<lastAcceleration, stabilityHistory, isInitialized,
                               stabilityScore>>
                /\ NoInject
           ELSE IF FirstReading
           THEN /\ lastAcceleration' = ReadingA(acceleration[1])
                /\ isInitialized' = TRUE
                /\ UNCHANGED <<stabilityHistory, stabilityScore>>
                /\ NoInject
           ELSE LET tremor  == TremorA(acceleration[1], lastAcceleration)
                    history == PushHistory(stabilityHistory, tremor, WindowA)
                    score   == ScoreA(AvgTremor(history))
                IN  /\ lastAcceleration' = ReadingA(acceleration[1])
                    /\ stabilityHistory' = history
                    /\ stabilityScore' = score
                    /\ UNCHANGED isInitialized
                    /\ IF Present(webViewRef)
                       THEN Inject(ScriptA(score, data, windowFns))
                       ELSE NoInject

\* src/unnamed/part_000 30-75: the DeviceMotion listener of HomeScreen
OnSampleB(data) ==
    /\ variant = "B"
    /\ Subscribed
    /\ MayReceive(data)
    /\ Received(data)
    /\ updateCount' = updateCount + 1
    /\ UNCHANGED <<variant, lastAcceleration, isInitialized, webViewRef, windowFns,
                   lifeVars, msgVars, shellVars>>
    /\ IF ~Present(data.rotation)
       THEN /\ UNCHANGED <<lastRotation, stabilityHistory, stabilityScore>>
            /\ NoInject
       ELSE LET tremor  == TremorB(data.rotation[1], lastRotation)
                history == PushHistory(stabilityHistory, tremor, WindowB)
                score   == ScoreB(AvgTremor(history))
            IN  /\ lastRotation' = ReadingB(data.rotation[1])
                /\ stabilityHistory' = history
                /\ stabilityScore' = score
                /\ IF Present(webViewRef)
                   THEN Inject(ScriptB(score, windowFns))
                   ELSE NoInject

\* permission is granted and the screen renders its WebView: ref={webViewRef}
AttachWebView ==
    /\ ~Present(webViewRef)
    /\ changes < MaxChanges
    /\ webViewRef' = Some("WebView")
    /\ changes' = changes + 1
    /\ UNCHANGED <<variant, lastAcceleration, lastRotation, stabilityHistory,
                   updateCount, isInitialized, stabilityScore, windowFns, injected,
                   nUpdateStability, nUpdateOrientation, sampleLog, latestAxes,
                   tremorLog, sameRun, lifeVars, msgVars, shellVars>>

\* the WebView leaves the tree: React clears the ref
DetachWebView ==
    /\ Present(webViewRef)
    /\ changes < MaxChanges
    /\ webViewRef' = None
    /\ changes' = changes + 1
    /\ UNCHANGED <<variant, lastAcceleration, lastRotation, stabilityHistory,
                   updateCount, isInitialized, stabilityScore, windowFns, injected,
                   nUpdateStability, nUpdateOrientation, sampleLog, latestAxes,
                   tremorLog, sameRun, lifeVars, msgVars, shellVars>>

Next ==
    \/ \E data \in MotionSamplesA : OnSampleA(data)
    \/ \E data \in MotionSamplesB : OnSampleB(data)
    \/ AttachWebView
    \/ DetachWebView

Spec == Init /\ [][Next]_vars

----------------------------------------------------------------------------
(* The subscription's lifetime: teardown and a new mount *)

\* the reading the processor keeps as its reference
Reference ==
    IF variant = "A"
    THEN <<lastAcceleration.x, lastAcceleration.y, lastAcceleration.z>>
    ELSE <<lastRotation.alpha, lastRotation.beta, lastRotation.gamma>>

\* Subscription.remove() of the motion collaborator: the listener is
\* unsubscribed, whether or not it already was, and nothing is raised
Remove(sub) == "removed"

\* mutant of Cleanup: the cleanup does not remove the subscription
Cleanup_NoRemove ==
    /\ cleanups < MaxCleanups
    /\ cleanups' = cleanups + 1
    /\ UNCHANGED <<variant, lastAcceleration, lastRotation, stabilityHistory,
                   updateCount, isInitialized, stabilityScore, webViewRef,
                   windowFns, injected, nUpdateStability, nUpdateOrientation,
                   sampleLog, latestAxes, tremorLog, sameRun, changes,
                   subscription, lifetime, leftover, msgVars, shellVars>>

\* return () => subscription && subscription.remove();
\* (subscription is the object addListener returned, so the && passes)
Cleanup ==
    /\ cleanups < MaxCleanups
    /\ subscription' = Remove(subscription)
    /\ cleanups' = cleanups + 1
    /\ UNCHANGED <<variant, lastAcceleration, lastRotation, stabilityHistory,
                   updateCount, isInitialized, stabilityScore, webViewRef,
                   windowFns, injected, nUpdateStability, nUpdateOrientation,
                   sampleLog, latestAxes, tremorLog, sameRun, changes,
                   lifetime, leftover, msgVars, shellVars>>

\* the part of a new mount that both Subscribe and its mutant share: the
\* component's state and ref are new, the stream of the lifetime starts
MountAgain ==
    /\ subscription = "removed"
    /\ lifetime < MaxLifetimes
    /\ lifetime' = lifetime + 1
    /\ leftover' = (stabilityHistory # <<>> /\ Reference # <<0, 0, 0>>)
    /\ subscription' = "active"
    /\ cleanups' = 0
    /\ stabilityScore' = Frac(1, 1)
    /\ webViewRef' = None
    /\ injected' = None
    /\ nUpdateStability' = 0
    /\ nUpdateOrientation' = 0
    /\ sampleLog' = <<>>
    /\ latestAxes' = None
    /\ tremorLog' = <<>>
    /\ sameRun' = 0
    /\ changes' = 0
    /\ UNCHANGED <<variant, windowFns, msgVars, shellVars>>

\* mutant of Subscribe: the listener's variables outlive the subscription
Subscribe_KeepsLocals ==
    /\ MountAgain
    /\ UNCHANGED <<lastAcceleration, lastRotation, stabilityHistory,
                   updateCount, isInitialized>>

\* the screen is mounted again after its teardown: the effect runs anew,
\* declares its variables and subscribes a new listener
Subscribe ==
    /\ MountAgain
    /\ lastAcceleration' = Vec(0, 0, 0)
    /\ lastRotation' = Rot(0, 0, 0)
    /\ stabilityHistory' = <<>>
    /\ updateCount' = 0
    /\ isInitialized' = FALSE

LifeSampleA(data) == updateCount < MaxLifeSamples /\ OnSampleA(data)

LifeSampleB(data) == updateCount < MaxLifeSamples /\ OnSampleB(data)

\* the page of the WebView exposes any part of the entry points
InitLife ==
    /\ \E v \in {"A", "B"} : Mounted(v)
    /\ windowFns \in SUBSET EntryPoints
    /\ FreshInstall

NextLife ==
    \/ \E data \in MotionSamplesA : LifeSampleA(data)
    \/ \E data \in MotionSamplesB : LifeSampleB(data)
    \/ AttachWebView
    \/ DetachWebView
    \/ Cleanup
    \/ Subscribe

SpecLife == InitLife /\ [][NextLife]_vars

----------------------------------------------------------------------------
(* What the properties below compare the processor's state with *)

LastN(s, n) == SubSeq(s, Len(s) - n + 1, Len(s))

\* the latest listener call was given a payload with the tracked vector
LatestAccepted == sampleLog # <<>> /\ HasVector(sampleLog[Len(sampleLog)])

\* the latest listener call made the page call updateStability with t tenths
DeliveredScore(t) == Present(injected) /\ injected[1].updateStability = Some(t)

ScoreWasDelivered == Present(injected) /\ Present(injected[1].updateStability)

----------------------------------------------------------------------------
(* Properties *)

\* C1: in variant A every score onSample computes, and every score it
\* delivers to updateStability, lies in [0, 100] (0 to 1000 tenths).
C1_ScoreWithinRange ==
    variant = "A" =>
        /\ 0 <= stabilityScore.num
        /\ stabilityScore.num <= ScoreCapA * stabilityScore.den
        /\ ScoreWasDelivered =>
              /\ 0 <= injected[1].updateStability[1]
              /\ injected[1].updateStability[1] <= 10 * ScoreCapA

\* the clamp acted: the mean tremor times 25 is above 100 and 100.0 went out
C1_Witness ==
    /\ variant = "A"
    /\ stabilityHistory # <<>>
    /\ GainA * Sum(stabilityHistory) > ScoreCapA * Len(stabilityHistory)
    /\ DeliveredScore(10 * ScoreCapA)

\* C2: in variant A the first listener call after subscription only takes
\* the payload's axis values as the reference: no history entry, no score,
\* no updateStability or updateOrientation call.
C2_FirstSampleOnlyInitialises ==
    (variant = "A" /\ updateCount = 1) =>
        /\ stabilityHistory = <<>>
        /\ stabilityScore = Frac(1, 1)
        /\ injected = None
        /\ nUpdateStability = 0
        /\ nUpdateOrientation = 0
        /\ LatestAccepted =>
              /\ isInitialized
              /\ Reference = AxesOf(sampleLog[1])

\* the first call came with a non-zero reading while the WebView was attached
C2_Witness ==
    /\ variant = "A"
    /\ updateCount = 1
    /\ Present(webViewRef)
    /\ isInitialized
    /\ Reference = <<5, 0, 0>>

\* C3: in both variants the history never holds more than W entries
\* (15 in variant A, 5 in variant B).
C3_HistoryBounded == Len(stabilityHistory) <= Window

\* a full window after more tremors than it holds
C3_Witness ==
    /\ variant = "A"
    /\ Len(stabilityHistory) = WindowA
    /\ Len(tremorLog) > WindowA

\* C4: the history is the last min(n, W) tremors of the stream, in arrival
\* order: a push at capacity evicts exactly the oldest entry.
C4_HistoryIsLastTremors ==
    stabilityHistory = LastN(tremorLog, Min(Len(tremorLog), Window))

\* a non-zero oldest entry was evicted and a non-zero tremor pushed
C4_Witness ==
    /\ Len(tremorLog) > Window
    /\ tremorLog[Len(tremorLog) - Window] # 0
    /\ stabilityHistory[Len(stabilityHistory)] # 0

\* C5: while every sample has the axis values of the sample before it, each
\* tremor computed is 0, and once W such tremors in a row have filled the
\* history the score is 0 and stays 0, whatever the history held before.
C5_IdenticalSamplesScoreZero ==
    /\ sameRun >= 1 => stabilityHistory[Len(stabilityHistory)] = 0
    /\ sameRun >= Window =>
          /\ stabilityScore = Frac(0, 1)
          /\ ScoreWasDelivered => DeliveredScore(0)

\* more than W identical samples after a non-zero tremor, and 0.0 went out
C5_Witness ==
    /\ variant = "A"
    /\ sameRun > WindowA
    /\ Sum(tremorLog) > 0
    /\ DeliveredScore(0)

\* every payload received so far is the same payload
ConstantStream == \A i \in 1..Len(sampleLog) : sampleLog[i] = sampleLog[1]

\* C6: a stream that from subscription on repeats one reading c, zero or
\* not, has score 0 on every delivery.
C6_ConstantStreamScoresZero ==
    (ConstantStream /\ ScoreWasDelivered) => DeliveredScore(0)

\* C7: while the stream has produced k <= W tremors, the mean is over
\* exactly those k (the divisor is the current length): after t1, t2, t3 it
\* is (t1 + t2 + t3) / 3, and the score set is that mean times the gain.
C7_MeanOverCurrentLength ==
    LET k == Len(tremorLog)
        avgTremor == AvgTremor(stabilityHistory)
    IN  (0 < k /\ k <= Window) =>
            /\ avgTremor.num * k = Sum(tremorLog) * avgTremor.den
            /\ k = 3 => avgTremor.num * 3
                          = (tremorLog[1] + tremorLog[2] + tremorLog[3]) * avgTremor.den
            /\ variant = "B" =>
                  stabilityScore.num * Milli * k
                    = GainB * Sum(tremorLog) * stabilityScore.den
            /\ (variant = "A" /\ GainA * Sum(tremorLog) <= ScoreCapA * k) =>
                  stabilityScore.num * k = GainA * Sum(tremorLog) * stabilityScore.den

\* three different non-zero tremors whose sum is no multiple of 3
C7_Witness ==
    /\ variant = "B"
    /\ Len(tremorLog) = 3
    /\ tremorLog[1] # 0 /\ tremorLog[2] # 0 /\ tremorLog[3] # 0
    /\ (tremorLog[1] + tremorLog[2] + tremorLog[3]) % 3 # 0

\* the payloads received so far all carry the vector, with these axis values
StreamIs(axes) ==
    /\ Len(sampleLog) = Len(axes)
    /\ \A i \in 1..Len(axes) :
          HasVector(sampleLog[i]) /\ AxesOf(sampleLog[i]) = axes[i]

\* C8: in variant A the score of the n-th accepted sample (n >= 2) is
\* min(25 * mean of the last min(n - 1, 15) tremors, 100), delivered as the
\* nearest tenth; x = 1, 1, 5 gives history <<0, 4>> and 50.0.
C8_EndToEndScoreA ==
    LET k    == Min(Len(tremorLog), WindowA)
        sum  == Sum(LastN(tremorLog, k))
        \* the expected score is num / k
        num  == IF GainA * sum <= ScoreCapA * k THEN GainA * sum ELSE ScoreCapA * k
    IN  variant = "A" =>
          /\ k > 0 =>
                /\ stabilityScore.num * k = num * stabilityScore.den
                /\ ScoreWasDelivered =>
                      LET d == injected[1].updateStability[1]
                      IN  /\ 2 * k * d - k <= 20 * num
                          /\ 20 * num <= 2 * k * d + k
          /\ StreamIs(<< <<1, 0, 0>>, <<1, 0, 0>>, <<5, 0, 0>> >>) =>
                /\ stabilityHistory = <<0, 4>>
                /\ stabilityScore = Frac(50, 1)
                /\ ScoreWasDelivered => DeliveredScore(500)

\* the scenario x = 1, 1, 5 ran with the WebView attached: 50.0 went out
C8_Witness ==
    /\ variant = "A"
    /\ StreamIs(<< <<1, 0, 0>>, <<1, 0, 0>>, <<5, 0, 0>> >>)
    /\ DeliveredScore(500)

\* a step of the listener, and the payload it was given
ListenerStep == updateCount' = updateCount + 1

StepPayload == sampleLog'[Len(sampleLog')]

OneStabilityCall == nUpdateStability' = nUpdateStability + 1

OneOrientationCall == nUpdateOrientation' = nUpdateOrientation + 1

\* C9 as claimed: with the WebView attached, every listener call other than
\* variant A's initialising one makes exactly one updateStability call and,
\* in variant A, exactly one updateOrientation call.
C9_EmitsOnEverySample ==
    [][(ListenerStep /\ Present(webViewRef) /\ ~(variant = "A" /\ ~isInitialized))
          => (OneStabilityCall /\ (variant = "A" => OneOrientationCall))]_vars

\* C9 as amended: with the WebView attached, a listener call whose payload
\* carries the tracked vector, other than variant A's first such call, makes
\* exactly one updateStability call and, in variant A, exactly one
\* updateOrientation call; a call whose payload lacks the vector makes none.
C9_EmitsOnEverySampleWithVector ==
    [][(ListenerStep /\ Present(webViewRef)) =>
          IF HasVector(StepPayload) /\ ~(variant = "A" /\ latestAxes = None)
          THEN /\ OneStabilityCall
               /\ IF variant = "A" THEN OneOrientationCall
                  ELSE UNCHANGED nUpdateOrientation
          ELSE UNCHANGED <<nUpdateStability, nUpdateOrientation>>]_vars

\* with the WebView attached, deliveries were made and then a payload
\* without the vector came and nothing went out
C9_Witness ==
    /\ variant = "A"
    /\ Present(webViewRef)
    /\ nUpdateStability >= 1
    /\ nUpdateOrientation = nUpdateStability
    /\ ~LatestAccepted
    /\ injected = None

\* the axis values of a payload, all 0 when the vector is absent
AxesOrZero(data) == IF HasVector(data) THEN AxesOf(data) ELSE <<0, 0, 0>>

\* C10 as claimed: every payload, also one whose whole vector is absent, is
\* processed with 0 for each missing axis: it updates the reference and
\* yields a history entry.
C10_AbsentFieldsAreZero ==
    sampleLog # <<>> =>
        /\ Reference = AxesOrZero(sampleLog[Len(sampleLog)])
        /\ Len(stabilityHistory) =
              Min(IF variant = "A" THEN updateCount - 1 ELSE updateCount, Window)

\* C10 as amended: a payload whose vector is present is processed with 0 for
\* each missing axis (tremor, history entry, reference); a payload whose
\* whole vector is absent is skipped and changes none of them.
C10_MissingAxesAreZero ==
    /\ Reference = (IF latestAxes = None THEN <<0, 0, 0>> ELSE latestAxes[1])
    /\ Len(stabilityHistory) = Min(Len(tremorLog), Window)
    /\ tremorLog # <<>> =>
          stabilityHistory[Len(stabilityHistory)] = tremorLog[Len(tremorLog)]

\* the selected vector of a payload lacks an axis value
LacksAnAxis(data) ==
    IF variant = "A"
    THEN LET v == IF data.acceleration # None THEN data.acceleration[1]
                  ELSE data.accelerationIncludingGravity[1]
         IN  v.x = None \/ v.y = None \/ v.z = None
    ELSE LET r == data.rotation[1]
         IN  r.alpha = None \/ r.beta = None \/ r.gamma = None

\* a payload without the vector was skipped, then one lacking an axis was
\* processed and gave a non-zero tremor
C10_Witness ==
    /\ LatestAccepted
    /\ LacksAnAxis(sampleLog[Len(sampleLog)])
    /\ \E i \in 1..Len(sampleLog) : ~HasVector(sampleLog[i])
    /\ stabilityHistory # <<>>
    /\ stabilityHistory[Len(stabilityHistory)] # 0

----------------------------------------------------------------------------
(* Properties of the subscription's lifetime, under SpecLife *)

ProcessorVars ==
    <<lastAcceleration, lastRotation, stabilityHistory, updateCount,
      isInitialized, stabilityScore, injected, nUpdateStability,
      nUpdateOrientation>>

ScoreOf(history) ==
    IF variant = "A" THEN ScoreA(AvgTremor(history)) ELSE ScoreB(AvgTremor(history))

\* C12: in a lifetime after the first, the counter, the reference, the init
\* flag of variant A, the history and every delivered score are those the
\* stream of this lifetime alone gives: 0, <<0, 0, 0>>, cleared and empty
\* before its first sample.
C12_StateScopedToLifetime ==
    lifetime > 1 =>
        /\ updateCount = Len(sampleLog)
        /\ Reference = IF latestAxes = None THEN <<0, 0, 0>> ELSE latestAxes[1]
        /\ variant = "A" => (isInitialized <=> latestAxes # None)
        /\ stabilityHistory = LastN(tremorLog, Min(Len(tremorLog), Window))
        /\ ScoreWasDelivered =>
              DeliveredScore(ToFixed1(ScoreOf(LastN(tremorLog, Min(Len(tremorLog), Window)))))

\* a second lifetime delivered a score after the first one ended with a
\* non-zero reference and a non-empty history
C12_Witness ==
    /\ lifetime = 2
    /\ leftover
    /\ stabilityHistory # <<>>
    /\ ScoreWasDelivered

\* the listener call of this step computes a score: its payload has the
\* tracked vector and, in variant A, is not the initialising one
Computes == HasVector(StepPayload) /\ (variant = "A" => isInitialized)

\* C13: a listener call makes the page call updateStability exactly when it
\* computes a score, the WebView is attached and the page exposes
\* updateStability, and updateOrientation exactly when, in variant A, the
\* same holds for updateOrientation, each whatever the other entry point is;
\* when the WebView or an entry point is missing the call is just not made,
\* and the reference and the history are updated all the same.
C13_DeliveryChecksEntryPoints ==
    [][ListenerStep =>
          /\ IF Computes /\ Present(webViewRef) /\ "updateStability" \in windowFns
             THEN OneStabilityCall
             ELSE UNCHANGED nUpdateStability
          /\ IF /\ variant = "A"
                /\ Computes /\ Present(webViewRef) /\ "updateOrientation" \in windowFns
             THEN OneOrientationCall
             ELSE UNCHANGED nUpdateOrientation
          /\ HasVector(StepPayload) =>
                /\ Reference' = AxesOf(StepPayload)
                /\ stabilityHistory' = LastN(tremorLog', Min(Len(tremorLog'), Window))]_vars

\* on a page that exposes updateOrientation only, variant A called it and
\* not updateStability, and its history went on growing
C13_Witness ==
    /\ variant = "A"
    /\ windowFns = {"updateOrientation"}
    /\ Present(injected)
    /\ injected[1].updateStability = None
    /\ Present(injected[1].updateOrientation)
    /\ nUpdateStability = 0
    /\ Len(stabilityHistory) = 2

----------------------------------------------------------------------------
(* Properties of the reference and of the source selection, under Spec *)

\* C14 as claimed: after every listener call the reference holds the axis
\* values of the payload just received, missing ones as 0.
C14_ReferenceIsSampleJustReceived ==
    [][ListenerStep => Reference' = AxesOrZero(StepPayload)]_vars

\* C14 as amended: a listener call whose payload carries the tracked vector
\* leaves its axis values, missing ones as 0, as the reference, and the
\* tremor it records is the delta against the nearest earlier payload that
\* carried the vector (against <<0, 0, 0>> for variant B's first); a call
\* whose payload lacks the vector leaves reference and history as they were.
C14_ReferenceIsLatestWithVector ==
    [][ListenerStep =>
          IF HasVector(StepPayload)
          THEN /\ Reference' = AxesOf(StepPayload)
               /\ latestAxes # None =>
                     /\ Reference = latestAxes[1]
                     /\ stabilityHistory'[Len(stabilityHistory')]
                           = Dist(AxesOf(StepPayload), latestAxes[1])
               /\ (latestAxes = None /\ variant = "B") =>
                     stabilityHistory' = <<Dist(AxesOf(StepPayload), <<0, 0, 0>>)>>
          ELSE /\ Reference' = Reference
               /\ stabilityHistory' = stabilityHistory]_vars

\* a payload without the vector came between two that carry it, and the
\* tremor recorded last is the delta between those two, not the delta
\* against zeros
C14_Witness ==
    LET n == Len(sampleLog)
    IN  /\ n >= 3
        /\ HasVector(sampleLog[n]) /\ ~HasVector(sampleLog[n - 1])
        /\ HasVector(sampleLog[n - 2])
        /\ Reference = AxesOf(sampleLog[n])
        /\ stabilityHistory # <<>>
        /\ stabilityHistory[Len(stabilityHistory)]
              = Dist(AxesOf(sampleLog[n]), AxesOf(sampleLog[n - 2]))
        /\ stabilityHistory[Len(stabilityHistory)]
              # Dist(AxesOf(sampleLog[n]), <<0, 0, 0>>)

\* the axis values of an acceleration vector, missing ones as 0
VecAxes(v) == <<ValueOr0(v.x), ValueOr0(v.y), ValueOr0(v.z)>>

\* C15: in variant A a listener call whose payload has linear acceleration
\* takes the reference, and the delta against the stored reference, from
\* linear acceleration, also when gravity-including acceleration is there
\* too; only a payload without linear acceleration has them taken from
\* gravity-including acceleration; the stored reference is used as it is,
\* whichever source it came from.
C15_LinearAccelerationPreferred ==
    [][(variant = "A" /\ ListenerStep) =>
          LET lin  == StepPayload.acceleration
              grav == StepPayload.accelerationIncludingGravity
              used == IF lin # None THEN VecAxes(lin[1]) ELSE VecAxes(grav[1])
          IN  (lin # None \/ grav # None) =>
                 /\ Reference' = used
                 /\ isInitialized =>
                       stabilityHistory'[Len(stabilityHistory')] = Dist(used, Reference)]_vars

\* a payload with gravity-including acceleration only was followed by one
\* with both sources, differing, and the tremor recorded is the delta of
\* its linear acceleration against the gravity-including reference
C15_Witness ==
    LET n == Len(sampleLog)
    IN  /\ variant = "A"
        /\ n >= 2
        /\ sampleLog[n - 1].acceleration = None
        /\ sampleLog[n - 1].accelerationIncludingGravity # None
        /\ sampleLog[n].acceleration # None
        /\ sampleLog[n].accelerationIncludingGravity # None
        /\ sampleLog[n].acceleration # sampleLog[n].accelerationIncludingGravity
        /\ Reference = VecAxes(sampleLog[n].acceleration[1])
        /\ stabilityHistory # <<>>
        /\ stabilityHistory[Len(stabilityHistory)]
              = Dist(VecAxes(sampleLog[n].acceleration[1]),
                     VecAxes(sampleLog[n - 1].accelerationIncludingGravity[1]))

LastAccepted ==
    LET acc  == SelectSeq(sampleLog, HasVector)
        m    == Min(Len(acc), Window + 1)
        last == LastN(acc, m)
    IN  [i \in 1..m |-> AxesOf(last[i])]

\* the deltas between neighbours in a sequence of axis values
Deltas(axes) == [i \in 1..(Len(axes) - 1) |-> Dist(axes[i + 1], axes[i])]

\* C18: in variant A the reference, the history, the score and the score
\* delivered are a function of the last 16 accepted samples alone (of all of
\* them while there are fewer): the last one, the deltas between them, and
\* min(25 * their mean, 100); whatever came before those 16 has no part.
C18_BoundedMemoryA ==
    variant = "A" =>
        LET axes   == LastAccepted
            m      == Len(axes)
            deltas == Deltas(axes)
            sum    == Sum(deltas)
            score  == IF GainA * sum > ScoreCapA * (m - 1) THEN Frac(ScoreCapA, 1)
                      ELSE Frac(GainA * sum, m - 1)
        IN  m >= 1 =>
              /\ Reference = axes[m]
              /\ stabilityHistory = deltas
              /\ m >= 2 =>
                    /\ stabilityScore = score
                    /\ ScoreWasDelivered => DeliveredScore(ToFixed1(score))

\* seventeen samples were accepted, the first tremor was not 0 and is out of
\* the history, and a score was delivered
C18_Witness ==
    /\ variant = "A"
    /\ Len(tremorLog) = WindowA + 1
    /\ tremorLog[1] # 0
    /\ Len(stabilityHistory) = WindowA
    /\ ScoreWasDelivered

----------------------------------------------------------------------------
(* The angles of variant A, under SpecAngle *)

\* listener calls explored in SpecAngle
MaxAngleSamples == 2

\* beta and gamma as a platform may report them, in thousandths: absent, 0,
\* pi/2 rad, the two thousandths of a radian on either side of 360 degrees
\* (negative and positive), and 400 taken for degrees
AngleValues == {None, Some(0), Some(1571), Some(-6283), Some(6284), Some(400000)}

AngleSamples ==
    { Motion(Some(Vec(Some(1), Some(0), Some(0))), None, None) }
  \cup
    { Motion(Some(Vec(Some(1), Some(0), Some(0))), None, Some(Rot(Some(0), b, g))) :
        b \in AngleValues, g \in AngleValues }

AngleSample(data) == updateCount < MaxAngleSamples /\ OnSampleA(data)

InitAngle == Mounted("A") /\ windowFns = EntryPoints /\ FreshInstall

NextAngle ==
    \/ \E data \in AngleSamples : AngleSample(data)
    \/ AttachWebView

SpecAngle == InitAngle /\ [][NextAngle]_vars

\* an optional angle of a payload, 0 when the rotation or the angle is absent
AngleOf(data, axis) ==
    IF data.rotation = None THEN 0 ELSE ValueOr0(data.rotation[1][axis])

\* thousandths of a radian as degrees, 180 / (1000 * pi) being 1017 / 17750
\* for pi = 355 / 113
Degrees(a) == Frac(a * 1017, 17750)

Within360(q) == Abs(q.num) <= FullTurnDeg * q.den

\* the updateOrientation call the latest listener call made the page run
OrientationDelivered == Present(injected) /\ Present(injected[1].updateOrientation)

LatestPayload == sampleLog[Len(sampleLog)]

\* C16 as claimed: the delivered pitch and roll are beta * 180 / pi and
\* gamma * 180 / pi to one decimal, 0 for an absent angle; when one of the
\* two converted magnitudes exceeds 360, an angle whose own converted
\* magnitude exceeds 360 is delivered unconverted, and an angle whose own
\* converted magnitude is within 360 is still delivered as its conversion.
C16_FallbackKeepsAngleWithin360 ==
    OrientationDelivered =>
        LET beta  == AngleOf(LatestPayload, "beta")
            gamma == AngleOf(LatestPayload, "gamma")
            sent  == injected[1].updateOrientation[1]
        IN  /\ sent.pitch = IF Within360(Degrees(beta)) THEN ToFixed1(Degrees(beta))
                            ELSE ToFixed1(Frac(beta, Milli))
            /\ sent.roll  = IF Within360(Degrees(gamma)) THEN ToFixed1(Degrees(gamma))
                            ELSE ToFixed1(Frac(gamma, Milli))

\* C16 as amended: the delivered pitch and roll are beta * 180 / pi and
\* gamma * 180 / pi to one decimal, 0 for an absent angle, when both
\* converted magnitudes are within 360; when either exceeds 360, both are
\* delivered unconverted (beta = 400 gives pitch 400.0), the other angle too
\* although its own converted magnitude is within 360.
C16_FallbackReplacesBothAngles ==
    OrientationDelivered =>
        LET beta  == AngleOf(LatestPayload, "beta")
            gamma == AngleOf(LatestPayload, "gamma")
            sent  == injected[1].updateOrientation[1]
        IN  /\ (Within360(Degrees(beta)) /\ Within360(Degrees(gamma))) =>
                  /\ sent.pitch = ToFixed1(Degrees(beta))
                  /\ sent.roll = ToFixed1(Degrees(gamma))
            /\ ~(Within360(Degrees(beta)) /\ Within360(Degrees(gamma))) =>
                  /\ sent.pitch = ToFixed1(Frac(beta, Milli))
                  /\ sent.roll = ToFixed1(Frac(gamma, Milli))
            /\ beta = 400 * Milli => sent.pitch = 10 * 400

\* beta = 400 with gamma = pi/2 rad was delivered as pitch 400.0 and roll
\* 1.6, the unconverted gamma, not the 90.0 of its conversion
C16_Witness ==
    /\ OrientationDelivered
    /\ AngleOf(LatestPayload, "beta") = 400 * Milli
    /\ AngleOf(LatestPayload, "gamma") = 1571
    /\ ToFixed1(Degrees(1571)) = 900
    /\ injected[1].updateOrientation[1] = [pitch |-> 4000, roll |-> 16]

----------------------------------------------------------------------------
(* handleWebViewMessage: src/app/index.tsx 156-321, src/unnamed/part_000
   99-231.  A call runs to its first await and is resumed once per awaited
   AsyncStorage call; between those points other calls may run. *)

\* messages handled in one run of SpecMsg
MaxMessages == 2

\* a profile, of which the id and the name are carried
Profile(id, name) == [id |-> id, name |-> name]

\* JSON.stringify of a list of profiles, and JSON.parse of such a text
Stringify(value) == [json |-> value]

ParseJson(text) == text.json

\* mutant of Truthy: only undefined is falsy
Truthy_EmptyPasses(o) == o # None

\* !!value for an optional string: undefined and '' are falsy
Truthy(o) == o # None /\ o # Some("")

\* profilesJson ? JSON.parse(profilesJson) : []
ParseProfiles(profilesJson) ==
    IF profilesJson = None THEN <<>> ELSE ParseJson(profilesJson[1])

\* what the page posts: a profile to save, as an object under profile or as
\* fields of the message itself, or the id of the profiles to delete
SaveMessage(profile, id, name) ==
    [type |-> "saveProfile", profile |-> profile, id |-> id, name |-> name]

DeleteMessage(id) ==
    [type |-> "deleteProfile", profile |-> None, id |-> id, name |-> None]

Messages ==
    { SaveMessage(None, Some(3), Some("c")),
      SaveMessage(Some(Profile(Some(4), Some("d"))), None, Some("d")),
      SaveMessage(None, Some(5), Some("")),
      SaveMessage(Some(Profile(Some(6), None)), None, Some("f")),
      DeleteMessage(Some(1)),
      DeleteMessage(Some(7)) }

\* what an earlier run of the app may have left in the item
StoredBefore ==
    { None,
      Some(Stringify(<< Profile(Some(1), Some("a")), Profile(Some(2), Some("b")),
                        Profile(Some(1), Some("a2")) >>)) }

\* index.tsx: const newProfile = data.profile || data;
\* part_000: const profile = { name: data.name, zoom: ..., ... } (no id)
NewProfile(data) ==
    IF variant = "A"
    THEN IF data.profile # None THEN data.profile[1] ELSE Profile(data.id, data.name)
    ELSE Profile(None, data.name)

\* profiles.filter(p => p.id !== data.id)
RECURSIVE FilterOutId(_, _)
FilterOutId(profiles, id) ==
    IF profiles = <<>> THEN <<>>
    ELSE IF Head(profiles).id # id
         THEN <<Head(profiles)>> \o FilterOutId(Tail(profiles), id)
         ELSE FilterOutId(Tail(profiles), id)

\* a step of a handleWebViewMessage call leaves the motion listener alone
ListenerIdle ==
    UNCHANGED <<variant, lastAcceleration, lastRotation, stabilityHistory,
                updateCount, isInitialized, stabilityScore, webViewRef,
                windowFns, injected, nUpdateStability, nUpdateOrientation,
                sampleLog, latestAxes, tremorLog, sameRun, changes, lifeVars>>

\* a call of handleWebViewMessage: its message, where it stands, and its
\* local profiles
Call(data, pc, profiles) == [data |-> data, pc |-> pc, profiles |-> profiles]

\* onMessage: the call runs to its first await.  part_000 tests data.name
\* before it reads the item; index.tsx tests the name after the read.
HandleMessage(data) ==
    /\ Len(handlers) < MaxMessages
    /\ handlers' =
          Append(handlers,
                 IF variant = "B" /\ data.type = "saveProfile" /\ ~Truthy(data.name)
                 THEN Call(data, "done", <<>>)
                 ELSE Call(data, "getItem", <<>>))
    /\ UNCHANGED <<airsoftProfiles, firstStored, receivedProfiles>>
    /\ ListenerIdle
    /\ UNCHANGED shellVars

\* await AsyncStorage.getItem('airsoftProfiles') returns to call i, which
\* runs on to its await of setItem, or to its end when the name is missing
GetItemReturns(i) ==
    /\ handlers[i].pc = "getItem"
    /\ LET data     == handlers[i].data
           profiles == ParseProfiles(airsoftProfiles)
       IN  handlers' =
             [handlers EXCEPT ![i] =
                IF data.type = "saveProfile"
                THEN IF ~Truthy(NewProfile(data).name)
                     THEN Call(data, "done", profiles)
                     ELSE Call(data, "setItem", Append(profiles, NewProfile(data)))
                ELSE Call(data, "setItem", FilterOutId(profiles, data.id))]
    /\ UNCHANGED <<airsoftProfiles, firstStored, receivedProfiles>>
    /\ ListenerIdle
    /\ UNCHANGED shellVars

\* AsyncStorage.setItem('airsoftProfiles', JSON.stringify(profiles)) of call
\* i writes the item
SetItemWrites(i) ==
    /\ handlers[i].pc = "setItem"
    /\ airsoftProfiles' = Some(Stringify(handlers[i].profiles))
    /\ handlers' = [handlers EXCEPT ![i].pc = "written"]
    /\ UNCHANGED <<firstStored, receivedProfiles>>
    /\ ListenerIdle
    /\ UNCHANGED shellVars

\* the await of setItem returns to call i, which runs to its end; the
\* deleteProfile of index.tsx hands its list to window.receiveProfiles, which
\* the page defines, when the WebView is there
SetItemReturns(i) ==
    /\ handlers[i].pc = "written"
    /\ handlers' = [handlers EXCEPT ![i].pc = "done"]
    /\ receivedProfiles' =
          IF /\ variant = "A" /\ handlers[i].data.type = "deleteProfile"
             /\ Present(webViewRef)
          THEN Some(ParseJson(Stringify(handlers[i].profiles)))
          ELSE receivedProfiles
    /\ UNCHANGED <<airsoftProfiles, firstStored>>
    /\ ListenerIdle
    /\ UNCHANGED shellVars

InitMsg ==
    /\ \E v \in {"A", "B"} : Mounted(v)
    /\ windowFns = EntryPoints
    /\ airsoftProfiles \in StoredBefore
    /\ firstStored = airsoftProfiles
    /\ NoSavedState

NextMsg ==
    \/ \E data \in Messages : HandleMessage(data)
    \/ \E i \in 1..Len(handlers) : GetItemReturns(i)
    \/ \E i \in 1..Len(handlers) : SetItemWrites(i)
    \/ \E i \in 1..Len(handlers) : SetItemReturns(i)
    \/ AttachWebView
    \/ DetachWebView

SpecMsg == InitMsg /\ [][NextMsg]_vars

----------------------------------------------------------------------------
(* Properties of the stored profiles, under SpecMsg *)

\* the list the item holds
StoredProfiles == ParseProfiles(airsoftProfiles)

\* every call made so far has run to its end
AllDone == handlers # <<>> /\ \A i \in 1..Len(handlers) : handlers[i].pc = "done"

\* call i handles a saveProfile message that carries a name
NamedSave(i) ==
    /\ handlers[i].data.type = "saveProfile"
    /\ Truthy(NewProfile(handlers[i].data).name)
    /\ variant = "B" => Truthy(handlers[i].data.name)

\* C19: when saveProfile messages carrying a name are all that was handled
\* and their calls have all ended, however they interleaved at their awaits,
\* the item holds the profiles it held before, in place, followed by one
\* entry for each message.
C19_SaveNeverLosesProfile ==
    (AllDone /\ \A i \in 1..Len(handlers) : NamedSave(i)) =>
        LET before == ParseProfiles(firstStored)
        IN  /\ Len(StoredProfiles) = Len(before) + Len(handlers)
            /\ SubSeq(StoredProfiles, 1, Len(before)) = before
            /\ \A i \in 1..Len(handlers) :
                  \E j \in (Len(before) + 1)..Len(StoredProfiles) :
                      StoredProfiles[j] = NewProfile(handlers[i].data)

\* call i handles a deleteProfile message and its setItem writes in this step
DeleteWrites(i) ==
    /\ handlers[i].data.type = "deleteProfile"
    /\ handlers[i].pc = "setItem"
    /\ handlers'[i].pc = "written"

\* C20: the write of a deleteProfile call leaves in the item exactly the
\* profiles it held whose id is not the message's id, in their order, and
\* the list index.tsx then hands to receiveProfiles is the list it wrote.
C20_DeleteRemovesExactlyMatching ==
    [][\A i \in 1..Len(handlers) :
          /\ DeleteWrites(i) =>
                ParseProfiles(airsoftProfiles')
                  = FilterOutId(StoredProfiles, handlers[i].data.id)
          /\ (/\ handlers[i].data.type = "deleteProfile"
              /\ handlers[i].pc = "written" /\ handlers'[i].pc = "done"
              /\ variant = "A" /\ Present(webViewRef)) =>
                receivedProfiles' = Some(handlers[i].profiles)]_vars

\* call i handles a saveProfile message whose profile, as the mounted screen
\* reads it (index.tsx: data.profile || data, part_000: data), has no name or
\* an empty one
NamelessSave(i) ==
    /\ handlers[i].data.type = "saveProfile"
    /\ NewProfile(handlers[i].data).name \in {None, Some("")}

\* C21: a call for a saveProfile message without a name never comes to its
\* setItem, and while such messages are all that was handled the item is as
\* the screen found it.
C21_NamelessSaveLeavesStorage ==
    /\ \A i \in 1..Len(handlers) :
          NamelessSave(i) => handlers[i].pc \in {"getItem", "done"}
    /\ (\A i \in 1..Len(handlers) : NamelessSave(i)) => airsoftProfiles = firstStored

\* two saveProfile messages without a name, one with '' and one with none,
\* have been handled to their end over an item that holds profiles
C21_Witness ==
    /\ AllDone
    /\ Len(handlers) = 2
    /\ NamelessSave(1) /\ NamelessSave(2)
    /\ NewProfile(handlers[1].data).name # NewProfile(handlers[2].data).name
    /\ firstStored # None
    /\ airsoftProfiles = firstStored


----------------------------------------------------------------------------
(* handleWebViewMessage as a whole, and the onLoad hook of the WebView:     *)
(* the text of a message is parsed and dispatched on its type, a storage    *)
(* operation may fail, and the saved state is handed back to the page       *)

\* how many messages the page posts
MaxShellMessages == 2

\* the page's entry points when it also exposes window.applyState
PageFns == EntryPoints \cup {"applyState"}

\* a message without a profile: a zoom value in thousandths, or a state
ShellMessage(type, value, state) ==
    [type |-> type, value |-> value, state |-> state,
     profile |-> None, id |-> None, name |-> None]

\* the states the page saves: an object, or null
PageStates == { Some([zoom |-> 350]), None }

\* what an earlier run of the app left under 'airsoftState'
EarlierState == Some([zoom |-> 0])

\* event.nativeEvent.data: the text of a message, or text that is not JSON
NotJson == [raw |-> "{oops"]

Posted ==
    { Stringify(ShellMessage("zoom", Some(0 - 500), None)),
      Stringify(ShellMessage("zoom", Some(350), None)),
      Stringify(ShellMessage("zoom", Some(2500), None)),
      Stringify(ShellMessage("loadState", None, None)),
      Stringify(ShellMessage("dance", None, None)),
      Stringify([type |-> "saveProfile", value |-> None, state |-> None,
                 profile |-> None, id |-> Some(3), name |-> Some("c")]),
      NotJson }
    \cup { Stringify(ShellMessage("saveState", None, s)) : s \in PageStates }

\* JSON.parse(text) returns rather than throws
Parses(text) == "json" \in DOMAIN text

\* the cases of the switch on data.type
Recognised ==
    { "zoom", "saveProfile", "loadProfile", "loadProfiles", "deleteProfile",
      "saveAllProfiles", "takePhoto", "saveState", "loadState", "stateChanged",
      "ready", "webview_ready", "dpad", "calibrate", "tare" }

\* Math.max(0, Math.min(1, value)) with the bounds left out
ZoomValue_Unclamped(value) == value

\* Math.max(0, Math.min(1, data.value)), in thousandths
ZoomValue(value) == IF Min(Milli, value) >= 0 THEN Min(Milli, value) ELSE 0

\* a catch block that throws the error on instead of logging it
Caught_Rethrown(e) == [e EXCEPT !.thrown = @ + 1]

\* catch (error) { console.error(..., error); }: the error is logged and
\* goes no further
Caught(e) == [e EXCEPT !.logged = @ + 1]

\* stateJson ? JSON.parse(stateJson) : null
ParseState(stateJson) ==
    IF stateJson = None THEN None ELSE ParseJson(stateJson[1])

\* if (window.applyState) window.applyState(state), run by injectJavaScript
\* in the WebView when there is one
ApplyState(state) ==
    IF Present(webViewRef) /\ "applyState" \in windowFns
    THEN Append(applied, state[1])
    ELSE applied

\* onMessage of the mounted WebView: the text is parsed and the call runs to
\* its first await, or to its end.  Text that is not JSON throws into the outer catch; a type the
\* switch does not know falls to default.
OnMessage(text) ==
    /\ Present(webViewRef)
    /\ Len(handlers) < MaxShellMessages
    /\ IF ~Parses(text)
       THEN /\ handlers' = Append(handlers, Call(text, "rejected", <<>>))
            /\ errors' = Caught(errors)
            /\ zoom' = zoom
       ELSE LET data == ParseJson(text)
            IN  /\ errors' = errors
                /\ zoom' = IF data.type = "zoom" THEN ZoomValue(data.value[1])
                           ELSE zoom
                /\ handlers' =
                      Append(handlers,
                        CASE data.type \notin Recognised -> Call(data, "ignored", <<>>)
                          [] data.type = "saveState" -> Call(data, "setState", <<>>)
                          [] data.type = "loadState" -> Call(data, "getState", <<>>)
                          [] data.type = "saveProfile" ->
                                IF variant = "B" /\ ~Truthy(data.name)
                                THEN Call(data, "done", <<>>)
                                ELSE Call(data, "getItem", <<>>)
                          [] OTHER -> Call(data, "done", <<>>))
    /\ UNCHANGED <<airsoftState, savedState, applied, onLoad, airsoftProfiles,
                   firstStored, receivedProfiles>>
    /\ ListenerIdle

\* await AsyncStorage.setItem('airsoftState', JSON.stringify(data.state)) of
\* call i writes the item and returns
SetStateReturns(i) ==
    /\ handlers[i].pc = "setState"
    /\ airsoftState' = Some(Stringify(handlers[i].data.state))
    /\ savedState' = Some(handlers[i].data.state)
    /\ handlers' = [handlers EXCEPT ![i].pc = "done"]
    /\ UNCHANGED <<zoom, applied, errors, onLoad, airsoftProfiles, firstStored,
                   receivedProfiles>>
    /\ ListenerIdle

\* await AsyncStorage.getItem('airsoftState') returns to call i of loadState:
\* if (state && webViewRef.current) the state goes to window.applyState
GetStateReturns(i) ==
    /\ handlers[i].pc = "getState"
    /\ LET state == ParseState(airsoftState)
       IN  applied' = IF Present(state) THEN ApplyState(state) ELSE applied
    /\ handlers' = [handlers EXCEPT ![i].pc = "done"]
    /\ UNCHANGED <<zoom, airsoftState, savedState, errors, onLoad, airsoftProfiles,
                   firstStored, receivedProfiles>>
    /\ ListenerIdle

\* the storage operation call i awaits is rejected: the catch around it logs
\* the error and the call ends
StorageFails(i) ==
    /\ handlers[i].pc \in {"getItem", "setItem", "setState", "getState"}
    /\ handlers' = [handlers EXCEPT ![i].pc = "failed"]
    /\ errors' = Caught(errors)
    /\ UNCHANGED <<zoom, airsoftState, savedState, applied, onLoad, airsoftProfiles,
                   firstStored, receivedProfiles>>
    /\ ListenerIdle

\* the page has loaded: onLoad runs to its await of getItem
OnLoadStarts ==
    /\ Present(webViewRef)
    /\ onLoad.pc = "idle"
    /\ onLoad' = [onLoad EXCEPT !.pc = "getItem"]
    /\ UNCHANGED <<zoom, airsoftState, savedState, applied, errors, msgVars>>
    /\ ListenerIdle

\* getItem returns to onLoad: if (state) the delivery is put off by 500 ms
\* with setTimeout, the state it read held by the closure
OnLoadReads ==
    /\ onLoad.pc = "getItem"
    /\ LET state == ParseState(airsoftState)
       IN  onLoad' = IF Present(state) THEN [pc |-> "timer", state |-> state]
                     ELSE [pc |-> "done", state |-> None]
    /\ UNCHANGED <<zoom, airsoftState, savedState, applied, errors, msgVars>>
    /\ ListenerIdle

\* getItem is rejected in onLoad: catch (e) logs the error
OnLoadFails ==
    /\ onLoad.pc = "getItem"
    /\ onLoad' = [pc |-> "done", state |-> None]
    /\ errors' = Caught(errors)
    /\ UNCHANGED <<zoom, airsoftState, savedState, applied, msgVars>>
    /\ ListenerIdle

\* the 500 ms are over: webViewRef.current?.injectJavaScript(...) hands the
\* state onLoad read to window.applyState
OnLoadTimer ==
    /\ onLoad.pc = "timer"
    /\ applied' = ApplyState(onLoad.state)
    /\ onLoad' = [onLoad EXCEPT !.pc = "done"]
    /\ UNCHANGED <<zoom, airsoftState, savedState, errors, msgVars>>
    /\ ListenerIdle

InitShell ==
    /\ \E v \in {"A", "B"} : Mounted(v)
    /\ windowFns \in {PageFns, EntryPoints}
    /\ airsoftProfiles = None
    /\ firstStored = None
    /\ airsoftState \in {None, Some(Stringify(EarlierState))}
    /\ savedState = IF airsoftState = None THEN None ELSE Some(EarlierState)

NextShell ==
    \/ \E text \in Posted : OnMessage(text)
    \/ \E i \in 1..Len(handlers) : SetStateReturns(i)
    \/ \E i \in 1..Len(handlers) : GetStateReturns(i)
    \/ \E i \in 1..Len(handlers) : StorageFails(i)
    \/ \E i \in 1..Len(handlers) : GetItemReturns(i)
    \/ \E i \in 1..Len(handlers) : SetItemWrites(i)
    \/ \E i \in 1..Len(handlers) : SetItemReturns(i)
    \/ OnLoadStarts
    \/ OnLoadReads
    \/ OnLoadFails
    \/ OnLoadTimer
    \/ AttachWebView
    \/ DetachWebView

SpecShell == InitShell /\ [][NextShell]_vars


----------------------------------------------------------------------------
(* Properties of the whole handler, under SpecShell *)

\* call i ended in this step on bad input: its text was not JSON, its type
\* was not recognised, or its storage operation failed
EndsOnBadInput(i) ==
    /\ handlers'[i].pc \in {"rejected", "ignored", "failed"}
    /\ i > Len(handlers) \/ handlers[i].pc # handlers'[i].pc

\* C22: handleWebViewMessage never lets an error out and bad input changes
\* nothing: in every step no error has left a handler uncaught, the zoom is
\* within [0, 1], and a step in which a call ends on text that is not JSON,
\* on an unrecognised type or on a failed storage operation leaves zoom,
\* 'airsoftProfiles' and 'airsoftState' as they were.
C22_BadInputContained ==
    [][ /\ errors'.thrown = 0
        /\ 0 <= zoom' /\ zoom' <= Milli
        /\ \A i \in 1..Len(handlers') :
              EndsOnBadInput(i) =>
                 UNCHANGED <<zoom, airsoftProfiles, airsoftState>> ]_vars

\* a zoom message of 2.5 has set the zoom to 1, the text that followed was
\* not JSON, and a stored state is still there
C22_Witness ==
    /\ Len(handlers) = 2
    /\ handlers[1].pc = "done" /\ handlers[1].data.type = "zoom"
    /\ handlers[1].data.value = Some(2500)
    /\ handlers[2].pc = "rejected"
    /\ zoom = Milli
    /\ errors = [logged |-> 1, thrown |-> 0]
    /\ airsoftState = Some(Stringify(EarlierState))


\* this step hands a state to window.applyState
Delivers == applied' # applied

\* the state this step hands to window.applyState, as the page saved it
Delivered == Some(applied'[Len(applied')])

\* C23: state round trip.  Once a saveState with state s has completed and
\* no later one has, whatever a loadState message or the onLoad hook hands to
\* window.applyState is exactly s; when no state was ever saved, nothing is
\* handed to window.applyState.
C23_StateRoundTrip ==
    [][ Delivers => savedState # None /\ Delivered = savedState[1] ]_vars

====
